---------------------------- MODULE Spec2Model ----------------------------
(***************************************************************************)
(* A model of src/main.py: one process that downloads a billing CSV from   *)
(* blob storage, loads it into a table, derives the Month and Year columns *)
(* and writes four aggregate cost reports.                                 *)
(*                                                                         *)
(* A file is the sequence of its lines; a CSV file's first line is its     *)
(* header (the sequence of its column names) and each further line is a    *)
(* record of cells.  A text cell is a string, a Date cell is the sequence  *)
(* of the numbers written in it (<<2024, 1, 15>> for "2024-01-15", << >>   *)
(* for an empty cell), a cost cell is the integer amount written in it.    *)
(* An optional value (None in the source) is a sequence of length 0 or 1.  *)
(***************************************************************************)
EXTENDS Integers, Sequences, FiniteSets, TLC

VARIABLES
    STORAGE_URL,    \* line 182
    OUT_FOLDER,     \* line 183
    pc,             \* the statement the process is at
    error,          \* the exception that ended the run, "" while none has
    clock,          \* the wall clock, in ticks of 1/TicksPerSecond second
    timestamp,      \* line 131, optional
    dirs,           \* the directories of the file system
    fs,             \* the files of the file system: path -> lines
    blob_client,    \* line 75: "none", "open", "closed"
    my_blob,        \* line 77: "none", "open", "closed"
    stream,         \* line 78, optional: the object the download will read
    data,           \* line 79, optional: the object's contents in memory
    df,             \* line 145, optional: the Billing Record Table
    gen,            \* each report generator's coroutine state
    agg_df,         \* each report generator's aggregate table, optional
    remote,         \* the remote object's contents, optional: unknown until read
    run,            \* the number of the current run of the program
    created,        \* history: path -> the run that first created the file
    succeeded       \* history: the runs that have ended without an exception

vars == <<STORAGE_URL, OUT_FOLDER, pc, error, clock, timestamp, dirs, fs,
          blob_client, my_blob, stream, data, df, gen, agg_df, remote, run,
          created, succeeded>>

---------------------------------------------------------------------------
(* Bounds of the model. *)

MaxRows == 3
MaxRunRows == 1
MaxRuns == 2
MaxClock == 2

---------------------------------------------------------------------------
(* Values. *)

None == "None"
NaN == "NaN"
NaT == [year |-> 0, month |-> 0, day |-> 0]
NaTMonth == [year |-> 0, month |-> 0]
NaTYear == [year |-> 0]

COST == "CostInBillingCurrency"

\* The columns of BILLING_DETAIL_TYPES the program reads, with their types.
BILLING_DETAIL_TYPES ==
    [AccountName |-> "str", SubscriptionName |-> "str", Date |-> "str",
     MeterCategory |-> "str", CostInBillingCurrency |-> "float"]

\* The strings pandas.read_csv reads as a missing value, among the cells
\* of the inputs below (keep_default_na is left at its default).
STR_NA_VALUES == {"", "NA", "null", "NaN"}

\* Strings in the order sorted() gives them.
Collation == <<"", "A", "B", "Compute", "NA", "Storage", "acct1", "acct2">>

DaysInMonth(y, m) ==
    IF m \in {4, 6, 9, 11} THEN 30
    ELSE IF m # 2 THEN 31
    ELSE IF (y % 4 = 0 /\ y % 100 # 0) \/ y % 400 = 0 THEN 29 ELSE 28

---------------------------------------------------------------------------
(* Inputs: the lines a billing export may hold. *)

AllColumns ==
    <<"SubscriptionName", "MeterCategory", "AccountName", "Date",
      "CostInBillingCurrency">>

NoMeterColumns ==
    <<"SubscriptionName", "AccountName", "Date", "CostInBillingCurrency">>

Line(sub, cat, acct, date, cost) ==
    [SubscriptionName |-> sub, MeterCategory |-> cat, AccountName |-> acct,
     Date |-> date, CostInBillingCurrency |-> cost]

LinePool ==
    { Line("A", "Compute", "acct1", <<2024, 1, 1>>, 10),
      Line("A", "Storage", "acct1", <<2024, 1, 15>>, 5),
      Line("B", "Compute", "acct2", <<2024, 2, 1>>, 3),
      Line("B", "Storage", "acct2", <<2025, 1, 1>>, 7),
      Line("", "Compute", "acct1", <<2024, 1, 1>>, 2),
      Line("A", "NA", "", <<2024, 2, 1>>, 4),
      Line("A", "Compute", "acct1", << >>, 1),
      Line("B", "Compute", "acct2", <<2024, 2, 30>>, -3) }

SeqsUpTo(S, n) == UNION { [1..k -> S] : k \in 0..n }

Restrict(line, cols) ==
    [c \in {cols[i] : i \in 1..Len(cols)} |-> line[c]]

\* The contents the remote object may have: nothing at all, or a header
\* and up to MaxRows lines under it.
BlobsUpTo(n) ==
    { << >> } \cup
    { <<cols>> \o [i \in 1..Len(ls) |-> Restrict(ls[i], cols)] :
        cols \in {AllColumns, NoMeterColumns}, ls \in SeqsUpTo(LinePool, n) }

Blobs == BlobsUpTo(MaxRows)

---------------------------------------------------------------------------
(* The library calls, as pure functions. *)

Columns(table) == {table.cols[i] : i \in 1..Len(table.cols)}

\* pandas.read_csv's conversion of one cell to its column's dtype: a "str"
\* cell holding one of the missing-value strings becomes NaN.  A Date cell
\* keeps its numbers (the empty cell << >> is its NaN) and a "float" cell
\* its amount.
ParseCell(col, cell) ==
    IF col = "Date" \/ BILLING_DETAIL_TYPES[col] = "float" THEN cell
    ELSE IF cell \in STR_NA_VALUES THEN NaN ELSE cell

\* pd.read_csv(billing_file, header=0, dtype=BILLING_DETAIL_TYPES) of a file
\* that has a header line.
read_csv(lines) ==
    [cols |-> Head(lines),
     rows |-> [i \in 1..(Len(lines) - 1) |->
                 [c \in DOMAIN lines[i + 1] |-> ParseCell(c, lines[i + 1][c])]]]

CanParseDate(cell) ==
    \/ cell = << >>
    \/ /\ Len(cell) = 3
       /\ cell[2] \in 1..12
       /\ cell[3] \in 1..DaysInMonth(cell[1], cell[2])

\* pd.to_datetime of one cell that can be parsed.
ParseDate(cell) ==
    IF cell = << >> THEN NaT
    ELSE [year |-> cell[1], month |-> cell[2], day |-> cell[3]]

to_datetime(table) ==
    [table EXCEPT !.rows =
        [i \in 1..Len(table.rows) |->
            [table.rows[i] EXCEPT !.Date = ParseDate(@)]]]

\* A bug to_period_M could have: the month of the year, as Series.dt.month
\* gives it, in place of the year-month period.
to_period_M_month_only(date) ==
    IF date = NaT THEN NaTMonth ELSE [year |-> 1, month |-> date.month]

\* Series.dt.to_period("M") and to_period("Y") of one value.
to_period_M(date) ==
    IF date = NaT THEN NaTMonth ELSE [year |-> date.year, month |-> date.month]

to_period_Y(date) ==
    IF date = NaT THEN NaTYear ELSE [year |-> date.year]

\* df["Month"] = df["Date"].dt.to_period("M"): a new column after the others.
AddMonth(table) ==
    [cols |-> Append(table.cols, "Month"),
     rows |-> [i \in 1..Len(table.rows) |->
                 ("Month" :> to_period_M(table.rows[i].Date)) @@ table.rows[i]]]

\* df["Year"] = df["Date"].dt.to_period("Y")
AddYear(table) ==
    [cols |-> Append(table.cols, "Year"),
     rows |-> [i \in 1..Len(table.rows) |->
                 ("Year" :> to_period_Y(table.rows[i].Date)) @@ table.rows[i]]]

\* The missing value of a column: groupby leaves out the rows whose key is
\* missing (dropna is left at its default).
Missing(key) ==
    IF key = "Month" THEN NaTMonth
    ELSE IF key = "Year" THEN NaTYear
    ELSE IF key = "Date" THEN NaT
    ELSE NaN

GroupKeys(rows, key) == {rows[i][key] : i \in 1..Len(rows)} \ {Missing(key)}

RECURSIVE SumWhere(_, _, _, _)
\* The sum of the cost of the first n rows whose key is k.
SumWhere(rows, key, k, n) ==
    IF n = 0 THEN 0
    ELSE SumWhere(rows, key, k, n - 1)
         + (IF rows[n][key] = k THEN rows[n][COST] ELSE 0)

\* The place of a group key in the sorted order of the keys.
Rank(key, k) ==
    IF key = "Month" THEN k.year * 12 + k.month
    ELSE CHOOSE i \in 1..Len(Collation) : Collation[i] = k

RECURSIVE SortKeys(_, _)
SortKeys(keys, key) ==
    IF keys = {} THEN << >>
    ELSE LET m == CHOOSE x \in keys :
                     \A y \in keys : Rank(key, x) <= Rank(key, y)
         IN  <<m>> \o SortKeys(keys \ {m}, key)

\* A bug groupby_sum could have: "first" in place of "sum".
groupby_first(table, key) ==
    LET ks == SortKeys(GroupKeys(table.rows, key), key)
        first(k) == CHOOSE i \in 1..Len(table.rows) :
                      /\ table.rows[i][key] = k
                      /\ \A j \in 1..(i - 1) : table.rows[j][key] # k
    IN  [cols |-> <<key, COST>>,
         rows |-> [i \in 1..Len(ks) |->
                     (key :> ks[i]) @@ (COST :> table.rows[first(ks[i])][COST])]]

\* df.groupby(key).agg({"CostInBillingCurrency": "sum"}).reset_index()
groupby_sum(table, key) ==
    LET ks == SortKeys(GroupKeys(table.rows, key), key)
    IN  [cols |-> <<key, COST>>,
         rows |-> [i \in 1..Len(ks) |->
                     (key :> ks[i]) @@
                     (COST :> SumWhere(table.rows, key, ks[i], Len(table.rows)))]]

\* DataFrame.to_csv(file_path, index=False): the header, then one line per
\* row.
to_csv(table) == <<table.cols>> \o table.rows

---------------------------------------------------------------------------
(* Paths.  A path is the sequence of its components; a component is a text *)
(* with, when it is built from the timestamp label, the label's second.    *)

TicksPerSecond == 2

Name(text) == [text |-> text, stamp |-> -1]
Label(ts, suffix) == [text |-> suffix, stamp |-> ts]

\* datetime.now().strftime("%Y%m%dT%H%M%S"): the second the clock is in.
strftime(now) == now \div TicksPerSecond

join(dir, component) == Append(dir, component)

out_dir == <<Name(OUT_FOLDER)>>
report_dir == join(out_dir, Label(timestamp[1], ""))
download_dir == join(out_dir, Name("raw"))
billing_file == join(download_dir, Label(timestamp[1], ".billing.csv"))

Parent(path) == SubSeq(path, 1, Len(path) - 1)

\* os.makedirs(path, exist_ok=True): the directory and those above it.
makedirs(path) == dirs \cup {SubSeq(path, 1, k) : k \in 1..Len(path)}

---------------------------------------------------------------------------
(* The report generators. *)

Generators == {"cost_by_sub", "cost_by_meter_cat", "cost_by_account", "cost_by_month"}

GroupColumn(g) ==
    CASE g = "cost_by_sub" -> "SubscriptionName"
      [] g = "cost_by_meter_cat" -> "MeterCategory"
      [] g = "cost_by_account" -> "AccountName"
      [] g = "cost_by_month" -> "Month"

\* A bug FileName could have: a name copied from the line above.
FileNameCopied(g) ==
    CASE g = "cost_by_sub" -> "cost_by_subscription.csv"
      [] g = "cost_by_meter_cat" -> "cost_by_meter_cat.csv"
      [] g = "cost_by_account" -> "cost_by_meter_cat.csv"
      [] g = "cost_by_month" -> "cost_by_month.csv"

\* The file name main gives each generator (lines 159 to 162).
FileName(g) ==
    CASE g = "cost_by_sub" -> "cost_by_subscription.csv"
      [] g = "cost_by_meter_cat" -> "cost_by_meter_cat.csv"
      [] g = "cost_by_account" -> "cost_by_account.csv"
      [] g = "cost_by_month" -> "cost_by_month.csv"

\* What main does when the generator it awaits returns.
AfterReturn(g) ==
    CASE g = "cost_by_sub" -> "cost_by_meter_cat"
      [] g = "cost_by_meter_cat" -> "cost_by_account"
      [] g = "cost_by_account" -> "cost_by_month"
      [] g = "cost_by_month" -> "done"

file_path(g) == join(report_dir, Name(FileName(g)))

---------------------------------------------------------------------------
(* The state after the interpreter has started and before line 180. *)

Idle == [g \in Generators |-> "idle"]

Init ==
    /\ STORAGE_URL = None
    /\ OUT_FOLDER = None
    /\ pc = "parse_args"
    /\ error = ""
    /\ clock = 0
    /\ timestamp = << >>
    /\ dirs = {}
    /\ fs = << >>
    /\ blob_client = "none"
    /\ my_blob = "none"
    /\ stream = << >>
    /\ data = << >>
    /\ df = << >>
    /\ gen = Idle
    /\ agg_df = [g \in Generators |-> << >>]
    /\ remote = << >>
    /\ run = 1
    /\ created = << >>
    /\ succeeded = {}

\* The variables of the process's memory that a step names one by one.
config == <<STORAGE_URL, OUT_FOLDER>>
disk == <<dirs, fs, created>>
fetch == <<blob_client, my_blob, stream, data>>
tables == <<df, gen, agg_df>>
world == <<clock, remote, run, succeeded>>

\* A bug Raise could have: the exception is caught and the step tried again.
RaiseAndRetry(e) == pc' = pc /\ error' = e

\* An uncaught exception: the process ends.
Raise(e) == pc' = "error" /\ error' = e

\* open(path, "w") or the write of a whole file: the file's lines are
\* replaced.
SetFile(path, lines) ==
    /\ fs' = (path :> lines) @@ fs
    /\ created' = IF path \in DOMAIN created THEN created
                  ELSE (path :> run) @@ created
    /\ dirs' = dirs

---------------------------------------------------------------------------
(* __main__, lines 180 to 193. *)

\* What --source, --out and the two environment variables may hold.
Given == {None, "", "given"}

Truthy(v) == v \notin {None, ""}

\* Python's a or b.
Or(a, b) == IF Truthy(a) THEN a ELSE b

ParseArgs ==
    /\ pc = "parse_args"
    /\ \E source \in Given, env_source \in Given :
          STORAGE_URL' = Or(source, env_source)
    /\ \E out \in Given, env_out \in Given :
          OUT_FOLDER' = Or(out, env_out)
    /\ pc' = "check_source"
    /\ UNCHANGED <<error, timestamp, disk, fetch, tables, world>>

CheckSource ==
    /\ pc = "check_source"
    /\ IF ~Truthy(STORAGE_URL) THEN Raise("ValueError")
       ELSE pc' = "check_out" /\ error' = error
    /\ UNCHANGED <<config, timestamp, disk, fetch, tables, world>>

\* A bug CheckOut could have: the output root is not looked at.
CheckOutUnchecked ==
    /\ pc = "check_out"
    /\ pc' = "main"
    /\ UNCHANGED <<config, error, timestamp, disk, fetch, tables, world>>

CheckOut ==
    /\ pc = "check_out"
    /\ IF ~Truthy(OUT_FOLDER) THEN Raise("ValueError")
       ELSE pc' = "main" /\ error' = error
    /\ UNCHANGED <<config, timestamp, disk, fetch, tables, world>>

---------------------------------------------------------------------------
(* main, lines 127 to 139. *)

AssertSource ==
    /\ pc = "main"
    /\ IF STORAGE_URL = "" THEN Raise("AssertionError")
       ELSE pc' = "now" /\ error' = error
    /\ UNCHANGED <<config, timestamp, disk, fetch, tables, world>>

Now ==
    /\ pc = "now"
    /\ timestamp' = <<strftime(clock)>>
    /\ pc' = "makedirs_out"
    /\ UNCHANGED <<config, error, disk, fetch, tables, world>>

\* One of the three os.makedirs calls: it creates the directory or raises.
MakeDirs(at, path, next) ==
    /\ pc = at
    /\ \/ /\ dirs' = makedirs(path)
          /\ pc' = next
          /\ error' = error
       \/ /\ Raise("OSError")
          /\ dirs' = dirs
    /\ UNCHANGED <<config, timestamp, fs, created, fetch, tables, world>>

MakeOutDir == MakeDirs("makedirs_out", out_dir, "makedirs_report")
MakeReportDir == MakeDirs("makedirs_report", report_dir, "makedirs_download")
MakeDownloadDir == MakeDirs("makedirs_download", download_dir, "from_blob_url")

---------------------------------------------------------------------------
(* load_csv_from_azure_blob, lines 73 to 84. *)

FromBlobUrl ==
    /\ pc = "from_blob_url"
    /\ blob_client' = "open"
    /\ pc' = "open"
    /\ UNCHANGED <<config, error, timestamp, disk, my_blob, stream, data,
                   tables, world>>

\* open(dest_file, "wb"): the file is created, or emptied when it exists.
OpenDest ==
    /\ pc = "open"
    /\ IF Parent(billing_file) \in dirs
       THEN /\ SetFile(billing_file, << >>)
            /\ my_blob' = "open"
            /\ pc' = "download_blob"
            /\ error' = error
       ELSE /\ Raise("FileNotFoundError")
            /\ UNCHANGED <<disk, my_blob>>
    /\ UNCHANGED <<config, timestamp, blob_client, stream, data, tables,
                   world>>

\* An exception inside the with block: the file is closed on the way out,
\* and line 82 is not reached.
RaiseInWith(e) ==
    /\ Raise(e)
    /\ my_blob' = "closed"
    /\ UNCHANGED <<config, timestamp, disk, blob_client, stream, data,
                   tables, world>>

\* await blob_client.download_blob(): the request is answered with the
\* object, whose contents are whatever the remote object holds, or fails.
DownloadBlob ==
    /\ pc = "download_blob"
    /\ \/ /\ \E b \in (IF remote = << >> THEN Blobs ELSE {remote[1]}) :
                /\ stream' = <<b>>
                /\ remote' = <<b>>
          /\ pc' = "readall"
          /\ UNCHANGED <<config, error, timestamp, disk, blob_client,
                         my_blob, data, tables, clock, run, succeeded>>
       \/ RaiseInWith("HttpResponseError")

\* await stream.readall(): the whole object, in memory.
ReadAll ==
    /\ pc = "readall"
    /\ \/ /\ data' = stream
          /\ pc' = "write"
          /\ UNCHANGED <<config, error, timestamp, disk, blob_client,
                         my_blob, stream, tables, world>>
       \/ RaiseInWith("HttpResponseError")

\* A bug Write could have: a short write, the last line left out.
WriteShort ==
    /\ pc = "write"
    /\ SetFile(billing_file, SubSeq(data[1], 1, Len(data[1]) - 1))
    /\ pc' = "exit_with"
    /\ UNCHANGED <<config, error, timestamp, fetch, tables, world>>

\* my_blob.write(data), one call with the whole contents.
Write ==
    /\ pc = "write"
    /\ SetFile(billing_file, data[1])
    /\ pc' = "exit_with"
    /\ UNCHANGED <<config, error, timestamp, fetch, tables, world>>

ExitWith ==
    /\ pc = "exit_with"
    /\ my_blob' = "closed"
    /\ pc' = "close"
    /\ UNCHANGED <<config, error, timestamp, disk, blob_client, stream,
                   data, tables, world>>

\* await blob_client.close(); the function returns and its locals go.
CloseClient ==
    /\ pc = "close"
    /\ blob_client' = "closed"
    /\ stream' = << >>
    /\ data' = << >>
    /\ pc' = "read_csv"
    /\ UNCHANGED <<config, error, timestamp, disk, my_blob, tables, world>>

---------------------------------------------------------------------------
(* main, lines 144 to 156. *)

ReadCsv ==
    /\ pc = "read_csv"
    /\ IF Len(fs[billing_file]) = 0
       THEN Raise("EmptyDataError") /\ df' = df
       ELSE /\ df' = <<read_csv(fs[billing_file])>>
            /\ pc' = "to_datetime"
            /\ error' = error
    /\ UNCHANGED <<config, timestamp, disk, fetch, gen, agg_df, world>>

ToDatetime ==
    /\ pc = "to_datetime"
    /\ IF "Date" \notin Columns(df[1])
       THEN Raise("KeyError") /\ df' = df
       ELSE IF \E i \in 1..Len(df[1].rows) : ~CanParseDate(df[1].rows[i].Date)
       THEN Raise("DateParseError") /\ df' = df
       ELSE /\ df' = <<to_datetime(df[1])>>
            /\ pc' = "to_period_M"
            /\ error' = error
    /\ UNCHANGED <<config, timestamp, disk, fetch, gen, agg_df, world>>

MonthColumn ==
    /\ pc = "to_period_M"
    /\ df' = <<AddMonth(df[1])>>
    /\ pc' = "to_period_Y"
    /\ UNCHANGED <<config, error, timestamp, disk, fetch, gen, agg_df, world>>

YearColumn ==
    /\ pc = "to_period_Y"
    /\ df' = <<AddYear(df[1])>>
    /\ pc' = "cost_by_sub"
    /\ UNCHANGED <<config, error, timestamp, disk, fetch, gen, agg_df, world>>

---------------------------------------------------------------------------
(* The four report generators, lines 87 to 124, and main's awaits of them, *)
(* lines 159 to 162.  The four are the same code with another key column.  *)

\* main reaches the await of generator g: the coroutine starts (the path
\* is joined, the message printed).
Call(g) ==
    /\ pc = g
    /\ gen[g] = "idle"
    /\ gen' = [gen EXCEPT ![g] = "started"]
    /\ UNCHANGED <<config, pc, error, timestamp, disk, fetch, df, agg_df,
                   world>>

\* A bug GroupBy could have: the rows with no key are dropped from df
\* itself (dropna with inplace=True) before the grouping.
GroupByDropna(g) ==
    /\ gen[g] = "started"
    /\ IF GroupColumn(g) \in Columns(df[1])
       THEN /\ df' = <<[df[1] EXCEPT !.rows =
                          SelectSeq(@, LAMBDA r : r[GroupColumn(g)] # Missing(GroupColumn(g)))]>>
            /\ agg_df' = [agg_df EXCEPT ![g] = <<groupby_sum(df[1], GroupColumn(g))>>]
            /\ gen' = [gen EXCEPT ![g] = "grouped"]
            /\ UNCHANGED <<pc, error>>
       ELSE /\ Raise("KeyError")
            /\ gen' = [gen EXCEPT ![g] = "raised"]
            /\ UNCHANGED <<df, agg_df>>
    /\ UNCHANGED <<config, timestamp, disk, fetch, world>>

\* df.groupby(key).agg(...).reset_index(): a new table; a key that is no
\* column of df raises.
GroupBy(g) ==
    /\ gen[g] = "started"
    /\ IF GroupColumn(g) \in Columns(df[1])
       THEN /\ agg_df' = [agg_df EXCEPT ![g] = <<groupby_sum(df[1], GroupColumn(g))>>]
            /\ gen' = [gen EXCEPT ![g] = "grouped"]
            /\ UNCHANGED <<pc, error>>
       ELSE /\ Raise("KeyError")
            /\ gen' = [gen EXCEPT ![g] = "raised"]
            /\ agg_df' = agg_df
    /\ UNCHANGED <<config, timestamp, disk, fetch, df, world>>

\* agg_df.to_csv(file_path, index=False) opens the file for writing: it is
\* created, or emptied when it exists; or the open fails.
OpenReport(g) ==
    /\ gen[g] = "grouped"
    /\ \/ /\ Parent(file_path(g)) \in dirs
          /\ SetFile(file_path(g), << >>)
          /\ gen' = [gen EXCEPT ![g] = "opened"]
          /\ UNCHANGED <<pc, error>>
       \/ /\ Raise("OSError")
          /\ gen' = [gen EXCEPT ![g] = "raised"]
          /\ UNCHANGED disk
    /\ UNCHANGED <<config, timestamp, fetch, df, agg_df, world>>

\* to_csv writes the header and the rows and closes the file, and the
\* generator returns; or the write fails and leaves the file as it is.
WriteReport(g) ==
    /\ gen[g] = "opened"
    /\ \/ /\ SetFile(file_path(g), to_csv(agg_df[g][1]))
          /\ gen' = [gen EXCEPT ![g] = "returned"]
          /\ agg_df' = [agg_df EXCEPT ![g] = << >>]
          /\ UNCHANGED <<pc, error>>
       \/ /\ Raise("OSError")
          /\ gen' = [gen EXCEPT ![g] = "raised"]
          /\ UNCHANGED <<disk, agg_df>>
    /\ UNCHANGED <<config, timestamp, fetch, df, world>>

\* A bug Await could have: the generator is started as a task and main
\* goes on without waiting for it.
AwaitStarted(g) ==
    /\ pc = g
    /\ gen[g] # "idle"
    /\ pc' = AfterReturn(g)
    /\ succeeded' = IF pc' = "done" THEN succeeded \cup {run} ELSE succeeded
    /\ UNCHANGED <<config, error, timestamp, disk, fetch, tables, clock,
                   remote, run>>

\* The await of generator g ends when g has returned, and main goes on.
Await(g) ==
    /\ pc = g
    /\ gen[g] = "returned"
    /\ pc' = AfterReturn(g)
    /\ succeeded' = IF pc' = "done" THEN succeeded \cup {run} ELSE succeeded
    /\ UNCHANGED <<config, error, timestamp, disk, fetch, tables, clock,
                   remote, run>>

ReportGenerator(g) ==
    Call(g) \/ GroupBy(g) \/ OpenReport(g) \/ WriteReport(g) \/ Await(g)

cost_by_sub == ReportGenerator("cost_by_sub")
cost_by_meter_cat == ReportGenerator("cost_by_meter_cat")
cost_by_account == ReportGenerator("cost_by_account")
cost_by_month == ReportGenerator("cost_by_month")

---------------------------------------------------------------------------
(* One run of the program. *)

load_csv_from_azure_blob ==
    FromBlobUrl \/ OpenDest \/ DownloadBlob \/ ReadAll \/ Write \/ ExitWith
    \/ CloseClient

main ==
    \/ AssertSource \/ Now \/ MakeOutDir \/ MakeReportDir \/ MakeDownloadDir
    \/ load_csv_from_azure_blob
    \/ ReadCsv \/ ToDatetime \/ MonthColumn \/ YearColumn
    \/ cost_by_sub \/ cost_by_meter_cat \/ cost_by_account \/ cost_by_month

Next == ParseArgs \/ CheckSource \/ CheckOut \/ main

Spec == Init /\ [][Next]_vars

---------------------------------------------------------------------------
(* Several runs of the program, one after the other, on one file system.   *)

\* Time passes.  The program reads the clock once, at line 131, so the
\* time that passes during a run is let pass before it.
Tick ==
    /\ pc = "parse_args"
    /\ clock < MaxClock
    /\ clock' = clock + 1
    /\ UNCHANGED <<config, pc, error, timestamp, disk, fetch, tables, remote,
                   run, succeeded>>

\* The process has ended and the program is started again.
NewRun ==
    /\ pc \in {"done", "error"}
    /\ run < MaxRuns
    /\ run' = run + 1
    /\ STORAGE_URL' = None
    /\ OUT_FOLDER' = None
    /\ pc' = "parse_args"
    /\ error' = ""
    /\ timestamp' = << >>
    /\ blob_client' = "none"
    /\ my_blob' = "none"
    /\ stream' = << >>
    /\ data' = << >>
    /\ df' = << >>
    /\ gen' = Idle
    /\ agg_df' = [g \in Generators |-> << >>]
    /\ UNCHANGED <<disk, clock, remote, succeeded>>

NextRuns == Next \/ Tick \/ NewRun

\* The runs read one remote object, which does not change between them.
InitRuns ==
    /\ STORAGE_URL = None
    /\ OUT_FOLDER = None
    /\ pc = "parse_args"
    /\ error = ""
    /\ clock = 0
    /\ timestamp = << >>
    /\ dirs = {}
    /\ fs = << >>
    /\ blob_client = "none"
    /\ my_blob = "none"
    /\ stream = << >>
    /\ data = << >>
    /\ df = << >>
    /\ gen = Idle
    /\ agg_df = [g \in Generators |-> << >>]
    /\ remote \in {<<b>> : b \in BlobsUpTo(MaxRunRows)}
    /\ run = 1
    /\ created = << >>
    /\ succeeded = {}

SpecRuns == InitRuns /\ [][NextRuns]_vars

---------------------------------------------------------------------------
(* What the properties below speak of. *)

\* The lines under the header of a CSV file.
Body(lines) == IF Len(lines) = 0 THEN << >> ELSE Tail(lines)

\* The N input rows: the lines of the downloaded file, as written in it.
InputRows == Body(fs[billing_file])

RECURSIVE TotalCost(_)
TotalCost(rows) ==
    IF Len(rows) = 0 THEN 0 ELSE rows[1][COST] + TotalCost(Tail(rows))

\* The rows of a sequence whose column col holds v.
RowsWith(rows, col, v) ==
    LET RECURSIVE pick(_)
        pick(n) == IF n = 0 THEN << >>
                   ELSE IF rows[n][col] = v THEN Append(pick(n - 1), rows[n])
                   ELSE pick(n - 1)
    IN  pick(Len(rows))

Report(g) == fs[file_path(g)]

Returned(g) == gen[g] = "returned"

\* The calendar year-month written in a non-empty Date cell.
YearMonth(cell) == <<cell[1], cell[2]>>

Dated(rows) == {i \in 1..Len(rows) : rows[i].Date # << >>}

RECURSIVE CostOf(_, _)
\* The sum of the cost of the rows of a set of row numbers.
CostOf(rows, idx) ==
    IF idx = {} THEN 0
    ELSE LET i == CHOOSE j \in idx : TRUE
         IN  rows[i][COST] + CostOf(rows, idx \ {i})

\* The Billing Record Table, once loaded.
Table == df[1].rows

\* The table is well-formed for the report by subscription: no row's
\* SubscriptionName is missing.
HasSubscriptionNames(rows) ==
    \A i \in 1..Len(rows) : rows[i].SubscriptionName # NaN

SubscriptionNames(rows) == {rows[i].SubscriptionName : i \in 1..Len(rows)}

\* The source or the output root is missing or empty.
Misconfigured == ~Truthy(STORAGE_URL) \/ ~Truthy(OUT_FOLDER)

\* The order main calls the generators in, and where a generator is.
Order == <<"cost_by_sub", "cost_by_meter_cat", "cost_by_account", "cost_by_month">>

Started(g) == gen[g] # "idle"

InProgress(g) == gen[g] \in {"started", "grouped", "opened"}

\* The year-months of the dated rows, and the year-month of a report line.
YearMonths(rows) == {YearMonth(rows[i].Date) : i \in Dated(rows)}

PeriodOf(line) == <<line.Month.year, line.Month.month>>

\* The files of the raw directory.
RawFiles == {p \in DOMAIN fs : Len(p) = 3 /\ p[2] = Name("raw")}

\* The files a run writes.
FilesOfRun == {billing_file} \cup {file_path(g) : g \in Generators}

\* Month and Year have been appended to the table.
Derived == df # << >> /\ {"Month", "Year"} \subseteq Columns(df[1])

---------------------------------------------------------------------------
(* C1.  For a well-formed Billing Record Table of N rows, that is one    *)
(* with no SubscriptionName missing, whose SubscriptionName column has k   *)
(* distinct values, the report cost_by_sub has written has k + 1 lines:    *)
(* the header, and one row per distinct SubscriptionName holding the sum   *)
(* of CostInBillingCurrency of the rows of that group; and its cost column *)
(* sums to the sum of CostInBillingCurrency over all N rows.               *)

C1_CostBySubscription ==
    (Returned("cost_by_sub") /\ HasSubscriptionNames(Table)) =>
        LET report == Report("cost_by_sub")
            names == SubscriptionNames(Table)
        IN  /\ Len(report) = Cardinality(names) + 1
            /\ report[1] = <<"SubscriptionName", COST>>
            /\ SubscriptionNames(Body(report)) = names
            /\ \A i \in 2..Len(report) :
                  report[i][COST] =
                    TotalCost(RowsWith(Table, "SubscriptionName",
                                       report[i].SubscriptionName))
            /\ TotalCost(Body(report)) = TotalCost(Table)
            /\ TotalCost(Table) = TotalCost(InputRows)

\* Three rows in two groups, one group of two rows.
C1_Witness ==
    /\ Returned("cost_by_sub")
    /\ HasSubscriptionNames(Table)
    /\ Len(Table) = 3
    /\ Len(Report("cost_by_sub")) = 3
    /\ \E i \in 2..3 : Report("cost_by_sub")[i][COST] = 15

---------------------------------------------------------------------------
(* C2.  After a successful run the cost columns of the four reports sum to *)
(* the same grand total, the sum of CostInBillingCurrency over the input   *)
(* rows, whatever the key columns hold.                                    *)

C2_CostConserved ==
    pc = "done" =>
        \A g \in Generators : TotalCost(Body(Report(g))) = TotalCost(InputRows)

---------------------------------------------------------------------------
(* C3.  When the source or the output root is missing or empty, the run    *)
(* ends in the configuration error and nothing has happened before it: no  *)
(* directory is created, no download started, no file written.             *)

C3_ConfigurationErrorFirst ==
    (pc # "parse_args" /\ Misconfigured) =>
        /\ pc \in {"check_source", "check_out", "error"}
        /\ pc = "error" => error = "ValueError"
        /\ dirs = {}
        /\ DOMAIN fs = {}
        /\ blob_client = "none"
        /\ my_blob = "none"
        /\ stream = << >>
        /\ timestamp = << >>

\* The source is given and the output root is not.
C3_Witness ==
    /\ pc = "error"
    /\ error = "ValueError"
    /\ STORAGE_URL = "given"
    /\ ~Truthy(OUT_FOLDER)

---------------------------------------------------------------------------
(* C4.  A later run of the program never changes a file that an earlier,  *)
(* successful run has created: each run writes its reports in a report     *)
(* directory of its own and its download in a file of its own, so that     *)
(* after n successful runs the raw directory holds n files.                *)

C4_RunsKeptApart ==
    /\ [][\A p \in DOMAIN fs :
            (created[p] \in succeeded /\ created[p] # run') =>
                (p \in DOMAIN fs' /\ fs'[p] = fs[p])]_vars
    /\ []((pc = "done" /\ succeeded = 1..run) =>
            Cardinality(RawFiles) = run)

---------------------------------------------------------------------------
(* C5.  The steps of a run happen in one order: the three directories are  *)
(* there before the download starts, the download is complete before the   *)
(* table is loaded, Month and Year are columns of the table before a       *)
(* report generator starts, a generator starts only when the one before it *)
(* has returned with its file written, and no two are in progress at once. *)

C5_StepsInOrder ==
    /\ (blob_client # "none" \/ my_blob # "none") =>
          {out_dir, report_dir, download_dir} \subseteq dirs
    /\ df # << >> =>
          /\ blob_client = "closed"
          /\ my_blob = "closed"
          /\ fs[billing_file] = remote[1]
    /\ (\E g \in Generators : Started(g)) =>
          /\ df # << >>
          /\ {"Month", "Year"} \subseteq Columns(df[1])
    /\ \A i \in 2..Len(Order) :
          Started(Order[i]) =>
              /\ Returned(Order[i - 1])
              /\ Len(Report(Order[i - 1])) >= 1
    /\ Cardinality({g \in Generators : InProgress(g)}) <= 1

\* The last generator is writing and the three before it have returned.
C5_Witness ==
    /\ gen["cost_by_month"] = "opened"
    /\ \A i \in 1..3 : Returned(Order[i])

---------------------------------------------------------------------------
(* C6.  When a step raises, the run ends there: no step follows it, and    *)
(* the step that raises leaves every directory and every file as it was.   *)

C6_AbortsWhereItFails ==
    [][/\ error = ""
       /\ error' # "" => (dirs' = dirs /\ fs' = fs)]_vars

\* cost_by_meter_cat has raised: the first report stays, the last two are
\* never written.
C6_Witness ==
    /\ pc = "error"
    /\ gen["cost_by_meter_cat"] = "raised"
    /\ Len(Report("cost_by_sub")) >= 1
    /\ file_path("cost_by_account") \notin DOMAIN fs
    /\ file_path("cost_by_month") \notin DOMAIN fs

---------------------------------------------------------------------------
(* C7.  The report of cost_by_month has one row per distinct calendar      *)
(* year-month of the Date column, holding the sum of CostInBillingCurrency *)
(* of the rows dated in it; the same month of two years is two rows.       *)

C7_CostByMonth ==
    Returned("cost_by_month") =>
        LET report == Report("cost_by_month")
        IN  /\ Len(report) = Cardinality(YearMonths(InputRows)) + 1
            /\ {PeriodOf(report[i]) : i \in 2..Len(report)} = YearMonths(InputRows)
            /\ \A i \in 2..Len(report) :
                  report[i][COST] =
                    CostOf(InputRows,
                           {j \in Dated(InputRows) :
                              YearMonth(InputRows[j].Date) = PeriodOf(report[i])})

\* January of two years, in two rows.
C7_Witness ==
    /\ Returned("cost_by_month")
    /\ Len(Report("cost_by_month")) = 3
    /\ Report("cost_by_month")[2].Month.month = Report("cost_by_month")[3].Month.month

---------------------------------------------------------------------------
(* C8.  A successful run on an empty output root has created five files    *)
(* and no others, the download and the four reports under their names; and *)
(* a step of a report generator changes no file but that generator's own.  *)

C8_FiveFiles ==
    /\ [](pc = "done" => (DOMAIN fs = FilesOfRun /\ Cardinality(DOMAIN fs) = 5))
    /\ [][\A g \in Generators :
            gen'[g] # gen[g] =>
                /\ Returned(g)' => file_path(g) \in DOMAIN fs'
                /\ \A p \in DOMAIN fs' :
                      p # file_path(g) => (p \in DOMAIN fs /\ fs'[p] = fs[p])]_vars

C8_Witness ==
    /\ pc = "done"
    /\ Cardinality(DOMAIN fs) = 5
    /\ \A g \in Generators : Len(Report(g)) >= 2

---------------------------------------------------------------------------
(* C9.  Once Month and Year are columns of the table, the table does not   *)
(* change: no step of a report generator changes df.                       *)

C9_TableNotChanged == [][Derived => df' = df]_vars

\* The four generators have run on a table with a row whose key is missing.
C9_Witness ==
    /\ Derived
    /\ \A g \in Generators : Returned(g)
    /\ \E i \in 1..Len(df[1].rows) : df[1].rows[i].SubscriptionName = NaN

---------------------------------------------------------------------------
(* C10.  From the open of the destination file on, the file holds nothing  *)
(* or the whole object, never a part of it; the file is opened before the  *)
(* download starts; a failed download leaves it there and empty, with the  *)
(* client not closed; the client is closed only after the whole object is  *)
(* in the file.                                                            *)

C10_NothingOrAll ==
    /\ stream # << >> => my_blob # "none"
    /\ my_blob # "none" =>
          /\ billing_file \in DOMAIN fs
          /\ \/ fs[billing_file] = << >>
             \/ remote # << >> /\ fs[billing_file] = remote[1]
    /\ error = "HttpResponseError" =>
          /\ fs[billing_file] = << >>
          /\ my_blob = "closed"
          /\ blob_client = "open"
    /\ blob_client = "closed" =>
          /\ my_blob = "closed"
          /\ fs[billing_file] = remote[1]

\* The read of an object of several lines has failed.
C10_Witness ==
    /\ error = "HttpResponseError"
    /\ stream # << >>
    /\ Len(stream[1]) = 3
    /\ fs[billing_file] = << >>

===========================================================================
